---- MODULE Spec2Model ----
(***************************************************************************)
(* findcert: look up certificates of a domain name at crt.sh.              *)
(*                                                                         *)
(* Two programs are modelled, selected by `variant`:                       *)
(*   "direct"      src/unnamed/part_000 (SELECT certificate ... LIKE $1)   *)
(*   "aggregated"  src/main.go          (full text + ILIKE, 8 text columns)*)
(*                                                                         *)
(* Errors are sets of tags: {} is nil, fmt.Errorf("... (%w)", e) adds the  *)
(* wrapper's tag to e, multierror.Append is union.  Strings are sequences  *)
(* of one-character strings.                                               *)
(*                                                                         *)
(* The libraries are modelled by their documented behaviour: database/sql  *)
(* (Rows.Next, Scan, Close, Err; the cursor is closed when ctx is done),   *)
(* flag (ExitOnError), signal.Notify, and multierror.Append, which keeps   *)
(* the non-nil errors of its arguments and answers nil when there is none. *)
(***************************************************************************)
(* Inputs not varied: -v (it only changes the prefix of the log lines) and *)
(* limits below 1.                                                         *)
(***************************************************************************)
EXTENDS Integers, Sequences, FiniteSets

VARIABLES
    variant,       \* which program runs
    flagOutcome,   \* what flag.Parse finds in os.Args: "ok", "help", "bad"
    nArg,          \* flag.NArg()
    limit,         \* *limit  (-n)
    printPEM,      \* *printPEM (-pem, direct variant only)
    domainName,    \* flag.Args()[0]
    table,         \* rows of certificate_and_identities at crt.sh
    malformed,     \* certificate ids whose DER x509.ParseCertificate rejects
    pc,            \* position of the main goroutine
    lpc,           \* position of the signal goroutine of run()
    osSignal,      \* the channel osSignal (capacity 1) holds a signal
    signalsSent,   \* signals the OS has delivered so far
    ctxCancelled,  \* ctx.Done() is closed
    dbAcquired,    \* sql.Open succeeded
    dbCloses,      \* calls of db.Close()
    stmtAcquired,  \* db.PrepareContext succeeded
    stmtCloses,    \* calls of stmt.Close()
    rowsAcquired,  \* QueryContext returned a *sql.Rows
    rowsClosed,    \* Rows.closed
    rowsReleased,  \* times the driver cursor was released (rowsi.Close)
    lasterr,       \* Rows.lasterr: "none", "eof", "canceled", "driver"
    queryArgs,     \* the bound parameters that reached the server
    eligible,      \* certificate ids the WHERE clause selected
    resultSet,     \* the rows the server returns, in order
    pos,           \* rows fetched by rows.Next so far
    ders,          \* the slice ders of getCertificates / run (direct)
    idx,           \* index of the range loop of run (direct)
    defers,        \* pending deferred calls of getCertificates, top first
    err,           \* the variable err of getCertificates
    retSlot,       \* the unnamed error result of getCertificates (aggregated)
    cleanupErrs,   \* errors the Close calls of getCertificates returned
    getErr,        \* what getCertificates returned to run
    runErr,        \* what run returned to main
    logOut,        \* everything written to the error stream, in order
    exitStatus,    \* "running", "0", "1", "2" or "signal" (killed)
    sigInWork,     \* a signal reached the listener while getCertificates worked
    cancelInWork   \* cancelFunc ran while getCertificates worked

vars == <<variant, flagOutcome, nArg, limit, printPEM, domainName, table,
          malformed, pc, lpc, osSignal, signalsSent, ctxCancelled,
          dbAcquired, dbCloses, stmtAcquired, stmtCloses, rowsAcquired,
          rowsClosed, rowsReleased, lasterr, queryArgs, eligible, resultSet,
          pos, ders, idx, defers, err, retSlot, cleanupErrs, getErr, runErr,
          logOut, exitStatus, sigInWork, cancelInWork>>

\* Bounds of the model.
MaxLimit == 2
MaxSignals == 1
MaxArgs == 2

Null == <<>>

(***************************************************************************)
(* The database.                                                           *)
(***************************************************************************)

\* Domain names tried: a plain name, a name no row holds, a name made of a
\* LIKE wildcard.
Domains == { <<"a">>, <<"c">>, <<"%">> }

\* A row of certificate_and_identities joined with its earliest log entry:
\* id is certificate_id, name is name_value, entry is min(entry_timestamp)
\* as <<t>> (Null when the certificate has no log entry), fts says whether the full
\* text index matches the searched name.
TableA ==
    { [id |-> 1, name |-> <<"a">>,      entry |-> <<10>>, fts |-> TRUE],
      [id |-> 2, name |-> <<"b", "a">>, entry |-> <<30>>, fts |-> TRUE],
      [id |-> 3, name |-> <<"a">>,      entry |-> Null,   fts |-> TRUE] }

TableB ==
    { [id |-> 1, name |-> <<"a", "b">>, entry |-> <<20>>, fts |-> FALSE],
      [id |-> 2, name |-> <<"a">>,      entry |-> Null,   fts |-> TRUE],
      [id |-> 3, name |-> <<"b">>,      entry |-> <<30>>, fts |-> TRUE] }

Tables == { TableA, TableB }

Ids(t) == { r.id : r \in t }

RowOf(t, i) == CHOOSE r \in t : r.id = i

\* SQL's  v LIKE p : % matches any string, _ any one character.
RECURSIVE Like(_, _)
Like(p, v) ==
    IF p = <<>> THEN v = <<>>
    ELSE IF Head(p) = "%"
         THEN Like(Tail(p), v) \/ (v # <<>> /\ Like(p, Tail(v)))
    ELSE IF v = <<>> THEN FALSE
    ELSE IF Head(p) = "_" \/ Head(p) = Head(v)
         THEN Like(Tail(p), Tail(v))
    ELSE FALSE

\* A statement that asks the server for one row more than -n.
QueryArgs_OneMore(name, n) == <<name, n + 1>>

\* The bound parameters of the one statement: the name and the limit.
QueryArgs(name, n) == <<name, n>>

\* WHERE clause of the direct query: name_value LIKE $1.
DirectWhere(args, r) == Like(args[1], r.name)

\* WHERE clause of the aggregated query:
\*   plainto_tsquery('certwatch', $1) @@ identities(cai.CERTIFICATE)
\*   AND cai.NAME_VALUE ILIKE ('%' || $1 || '%')
AggregatedWhere(args, r) ==
    r.fts /\ Like(<<"%">> \o args[1] \o <<"%">>, r.name)

\* Sort key of ORDER BY: certificate_id DESC, or ENTRY_TIMESTAMP DESC NULLS
\* LAST (Null sorts below every timestamp).
OrderKey(v, r) ==
    IF v = "direct" THEN r.id
    ELSE IF r.entry = Null THEN 0 - r.id ELSE r.entry[1]

\* The ids of s by descending key.
RECURSIVE SortDesc(_, _, _)
SortDesc(v, t, s) ==
    IF s = {} THEN <<>>
    ELSE LET m == CHOOSE i \in s :
                    \A j \in s : OrderKey(v, RowOf(t, j)) <= OrderKey(v, RowOf(t, i))
         IN <<m>> \o SortDesc(v, t, s \ {m})

\* LIMIT $2.
Take(s, n) == SubSeq(s, 1, IF n < Len(s) THEN n ELSE Len(s))

Where(v, args, r) ==
    IF v = "direct" THEN DirectWhere(args, r) ELSE AggregatedWhere(args, r)

Selected(v, t, args) == { r.id : r \in { x \in t : Where(v, args, x) } }

\* What the server answers to the statement with bound parameters args.
ServerResult(v, t, args) == Take(SortDesc(v, t, Selected(v, t, args)), args[2])

(***************************************************************************)
(* Errors.                                                                 *)
(***************************************************************************)

\* fmt.Errorf("<tag> (%w)", e)
Wrap(tag, e) == e \cup {tag}

\* multierror.Append(e, es...): the errors of both; nil when both are nil.
MultiAppend(e, es) == e \cup es

\* What a call that takes ctx can answer: ctx.Err() once ctx is cancelled,
\* otherwise success or a failure of the connection.
ContextCall == IF ctxCancelled THEN { {"canceled"} } ELSE { {}, {"errDriver"} }

(***************************************************************************)
(* Initial state: the command line and the database are the inputs.        *)
(***************************************************************************)

Init ==
    /\ variant \in {"direct", "aggregated"}
    /\ flagOutcome \in {"ok", "help", "bad"}
    /\ nArg \in 0..MaxArgs
    /\ limit \in 1..MaxLimit
    /\ printPEM \in (IF variant = "direct" THEN BOOLEAN ELSE {FALSE})
    /\ domainName \in Domains
    /\ table \in Tables
    /\ malformed \in (IF variant = "direct" THEN SUBSET Ids(table) ELSE { {} })
    /\ pc = "start"
    /\ lpc = "unstarted"
    /\ osSignal = FALSE
    /\ signalsSent = 0
    /\ ctxCancelled = FALSE
    /\ dbAcquired = FALSE
    /\ dbCloses = 0
    /\ stmtAcquired = FALSE
    /\ stmtCloses = 0
    /\ rowsAcquired = FALSE
    /\ rowsClosed = FALSE
    /\ rowsReleased = 0
    /\ lasterr = "none"
    /\ queryArgs = <<>>
    /\ eligible = {}
    /\ resultSet = <<>>
    /\ pos = 0
    /\ ders = <<>>
    /\ idx = 0
    /\ defers = <<>>
    /\ err = {}
    /\ retSlot = {}
    /\ cleanupErrs = {}
    /\ getErr = {}
    /\ runErr = {}
    /\ logOut = <<>>
    /\ exitStatus = "running"
    /\ sigInWork = FALSE
    /\ cancelInWork = FALSE

inputs == <<variant, flagOutcome, nArg, limit, printPEM, domainName, table, malformed>>
sigVars == <<lpc, osSignal, signalsSent, sigInWork, cancelInWork>>
connVars == <<dbAcquired, dbCloses, stmtAcquired, stmtCloses>>
rowVars == <<rowsAcquired, rowsClosed, rowsReleased, lasterr, queryArgs, eligible, resultSet, pos>>
errVars == <<err, retSlot, cleanupErrs, getErr, runErr>>

Running == pc # "exited"

\* getCertificates is connecting, querying or iterating.
InWork == pc \in {"open", "prepare", "query", "columns", "next", "scan"}

\* signal.Notify has run.
ListenerInstalled == lpc \notin {"unstarted", "spawned"}

\* os.Exit(status), or death by signal.
Exit(status) ==
    /\ pc' = "exited"
    /\ exitStatus' = status

Log(entry) == logOut' = logOut \o <<entry>>

(***************************************************************************)
(* The operating system and the signal goroutine of run().                 *)
(***************************************************************************)

\* The OS delivers SIGINT or SIGTERM.  Before signal.Notify the signal kills
\* the process; after it the signal goes to osSignal (dropped when full).
Signal ==
    /\ Running
    /\ signalsSent < MaxSignals
    /\ signalsSent' = signalsSent + 1
    /\ IF ListenerInstalled
       THEN /\ osSignal' = TRUE
            /\ sigInWork' = (sigInWork \/ InWork)
            /\ UNCHANGED <<pc, exitStatus>>
       ELSE /\ Exit("signal")
            /\ UNCHANGED <<osSignal, sigInWork>>
    /\ UNCHANGED <<inputs, lpc, cancelInWork, ctxCancelled, connVars, rowVars,
                   ders, idx, defers, errVars, logOut>>

\* signal.Notify(osSignal, syscall.SIGTERM, os.Interrupt)
runListener_Notify ==
    /\ Running
    /\ lpc = "spawned"
    /\ lpc' = "waiting"
    /\ UNCHANGED <<inputs, pc, osSignal, signalsSent, sigInWork, cancelInWork,
                   ctxCancelled, connVars, rowVars, ders, idx, defers, errVars,
                   logOut, exitStatus>>

\* s := <-osSignal; log.Printf("Cancelling operations due to (%v)\n", ...)
runListener_Receive ==
    /\ Running
    /\ lpc = "waiting"
    /\ osSignal
    /\ osSignal' = FALSE
    /\ lpc' = "cancelling"
    /\ Log(<<"cancelling", 0>>)
    /\ UNCHANGED <<inputs, pc, signalsSent, sigInWork, cancelInWork,
                   ctxCancelled, connVars, rowVars, ders, idx, defers, errVars,
                   exitStatus>>

\* cancelFunc()
runListener_Cancel ==
    /\ Running
    /\ lpc = "cancelling"
    /\ lpc' = "logging"
    /\ ctxCancelled' = TRUE
    /\ cancelInWork' = (cancelInWork \/ (InWork /\ ~ctxCancelled))
    /\ UNCHANGED <<inputs, pc, osSignal, signalsSent, sigInWork, connVars,
                   rowVars, ders, idx, defers, errVars, logOut, exitStatus>>

\* log.Println("operations cancelled")
runListener_Log ==
    /\ Running
    /\ lpc = "logging"
    /\ lpc' = "done"
    /\ Log(<<"cancelled", 0>>)
    /\ UNCHANGED <<inputs, pc, osSignal, signalsSent, sigInWork, cancelInWork,
                   ctxCancelled, connVars, rowVars, ders, idx, defers, errVars,
                   exitStatus>>

\* database/sql closes the cursor of a QueryContext once ctx is done
\* (Rows.awaitDone: rs.close(ctx.Err())).
AwaitDone ==
    /\ Running
    /\ ctxCancelled
    /\ rowsAcquired
    /\ ~rowsClosed
    /\ rowsClosed' = TRUE
    /\ rowsReleased' = rowsReleased + 1
    /\ lasterr' = (IF lasterr = "none" THEN "canceled" ELSE lasterr)
    /\ UNCHANGED <<inputs, pc, sigVars, ctxCancelled, connVars, rowsAcquired,
                   queryArgs, eligible, resultSet, pos, ders, idx, defers,
                   errVars, logOut, exitStatus>>

(***************************************************************************)
(* run(), up to the call of getCertificates.                               *)
(***************************************************************************)

\* ctx, cancelFunc := context.WithCancel(...); go func() {...}();
\* log.SetFlags(0); the flags and flag.CommandLine.Usage are defined.
run_Start ==
    /\ pc = "start"
    /\ pc' = "parse"
    /\ lpc' = "spawned"
    /\ UNCHANGED <<inputs, osSignal, signalsSent, sigInWork, cancelInWork,
                   ctxCancelled, connVars, rowVars, ders, idx, defers, errVars,
                   logOut, exitStatus>>

\* flag.Parse() on flag.CommandLine (flag.ExitOnError): -h prints the usage
\* and exits 0, a flag that does not parse prints the error and the usage
\* and exits 2.
run_FlagParse ==
    /\ pc = "parse"
    /\ CASE flagOutcome = "ok" ->
                /\ pc' = "checkArgs"
                /\ UNCHANGED <<logOut, exitStatus>>
         [] flagOutcome = "help" ->
                /\ Log(<<"usage", 0>>)
                /\ Exit("0")
         [] OTHER ->
                /\ logOut' = logOut \o << <<"flagError", 0>>, <<"usage", 0>> >>
                /\ Exit("2")
    /\ UNCHANGED <<inputs, sigVars, ctxCancelled, connVars, rowVars, ders, idx,
                   defers, errVars>>

\* A check that only rejects an empty argument list.
ArgCountOK_AtLeastOne(n) == n >= 1

\* flag.NArg() != 1 is the usage error.
ArgCountOK(n) == n = 1

\* if flag.NArg() != 1 { return errExpectedArguments }; the deferred
\* cancelFunc runs as run returns.
run_CheckArgs ==
    /\ pc = "checkArgs"
    /\ IF ArgCountOK(nArg)
       THEN /\ pc' = "open"
            /\ UNCHANGED <<runErr, ctxCancelled>>
       ELSE /\ runErr' = {"errExpectedArguments"}
            /\ ctxCancelled' = TRUE
            /\ pc' = "fatal"
    /\ UNCHANGED <<inputs, sigVars, connVars, rowVars, ders, idx, defers, err,
                   retSlot, cleanupErrs, getErr, logOut, exitStatus>>

(***************************************************************************)
(* getCertificates.                                                        *)
(***************************************************************************)

\* A return statement.  The direct variant names its result err, so the
\* statement assigns the variable the deferred closures append to; the
\* aggregated variant's result is unnamed, and its deferred closures append
\* to the local err (which keeps `local`, the error of the failed call).
SetReturn(e, local) ==
    IF variant = "direct"
    THEN /\ err' = e
         /\ UNCHANGED retSlot
    ELSE /\ retSlot' = e
         /\ err' = local

\* The error getCertificates hands to run once the deferred calls have run.
ReturnedError == IF variant = "direct" THEN err ELSE retSlot

DeferDbClose(d) == <<"dbClose">> \o d

DeferStmtClose(d) == <<"stmtClose">> \o d

\* A getCertificates that forgets to defer rows.Close().
DeferRowsClose_Forgotten(d) == d

DeferRowsClose(d) == <<"rowsClose">> \o d

\* db, err := sql.Open("postgres", ...)
getCertificates_Open ==
    /\ pc = "open"
    /\ \E ok \in BOOLEAN :
         IF ok
         THEN /\ dbAcquired' = TRUE
              /\ defers' = DeferDbClose(defers)
              /\ err' = {}
              /\ pc' = (IF variant = "direct" THEN "query" ELSE "prepare")
              /\ UNCHANGED retSlot
         ELSE /\ SetReturn(Wrap("couldNotOpen", {"errOpen"}), {"errOpen"})
              /\ pc' = "defers"
              /\ UNCHANGED <<dbAcquired, defers>>
    /\ UNCHANGED <<inputs, sigVars, ctxCancelled, dbCloses, stmtAcquired,
                   stmtCloses, rowVars, ders, idx, cleanupErrs, getErr, runErr,
                   logOut, exitStatus>>

\* stmt, err := db.PrepareContext(ctx, certificateQuery)   (aggregated)
getCertificates_Prepare ==
    /\ pc = "prepare"
    /\ \E e \in ContextCall :
         IF e = {}
         THEN /\ stmtAcquired' = TRUE
              /\ defers' = DeferStmtClose(defers)
              /\ err' = {}
              /\ pc' = "query"
              /\ UNCHANGED <<retSlot, logOut>>
         ELSE /\ Log(<<"errorType", 0>>)
              /\ SetReturn(Wrap("couldNotPrepare", e), e)
              /\ pc' = "defers"
              /\ UNCHANGED <<stmtAcquired, defers>>
    /\ UNCHANGED <<inputs, sigVars, ctxCancelled, dbAcquired, dbCloses,
                   stmtCloses, rowVars, ders, idx, cleanupErrs, getErr, runErr,
                   exitStatus>>

\* rows, err = db.QueryContext(ctx, certificateQuery, domainName, limit)
\* rows, err := stmt.QueryContext(ctx, domainName, limit)
getCertificates_Query ==
    /\ pc = "query"
    /\ \E e \in ContextCall :
         IF e = {}
         THEN /\ rowsAcquired' = TRUE
              /\ queryArgs' = QueryArgs(domainName, limit)
              /\ eligible' = Selected(variant, table, queryArgs')
              /\ resultSet' = ServerResult(variant, table, queryArgs')
              /\ defers' = DeferRowsClose(defers)
              /\ err' = {}
              /\ pc' = (IF variant = "direct" THEN "next" ELSE "columns")
              /\ UNCHANGED retSlot
         ELSE /\ SetReturn(Wrap("couldNotExecute", e), e)
              /\ pc' = "defers"
              /\ UNCHANGED <<rowsAcquired, queryArgs, eligible, resultSet, defers>>
    /\ UNCHANGED <<inputs, sigVars, ctxCancelled, connVars, rowsClosed,
                   rowsReleased, lasterr, pos, ders, idx, cleanupErrs, getErr,
                   runErr, logOut, exitStatus>>

\* Rows.lasterrOrErrLocked(errRowsClosed)
LastErrOr(e) == IF lasterr \notin {"none", "eof"} THEN {lasterr} ELSE e

\* columns, err := rows.Columns()   (aggregated): fails on a closed cursor.
getCertificates_Columns ==
    /\ pc = "columns"
    /\ IF rowsClosed
       THEN /\ SetReturn(Wrap("couldNotGetColumns", LastErrOr({"errRowsClosed"})),
                         LastErrOr({"errRowsClosed"}))
            /\ pc' = "defers"
       ELSE /\ err' = {}
            /\ pc' = "next"
            /\ UNCHANGED retSlot
    /\ UNCHANGED <<inputs, sigVars, ctxCancelled, connVars, rowVars, ders, idx,
                   defers, cleanupErrs, getErr, runErr, logOut, exitStatus>>

\* What the loop does when rows.Next() answers false: the code goes
\* straight to `return ders, nil` / `return nil, nil`.
LoopEnd ==
    /\ SetReturn({}, err)
    /\ pc' = "defers"

\* for rows.Next() { ... }.  Next answers false on a closed cursor, at the
\* end of the result set and on an error of the connection; in the last two
\* cases it closes the cursor itself and drops what that close returns.
getCertificates_Next ==
    /\ pc = "next"
    /\ \/ /\ rowsClosed
          /\ LoopEnd
          /\ UNCHANGED <<rowsClosed, rowsReleased, lasterr, pos>>
       \/ /\ ~rowsClosed
          /\ pos < Len(resultSet)
          /\ pos' = pos + 1
          /\ pc' = "scan"
          /\ UNCHANGED <<rowsClosed, rowsReleased, lasterr, err, retSlot>>
       \/ /\ ~rowsClosed
          /\ pos = Len(resultSet)
          /\ lasterr' = "eof"
          /\ rowsClosed' = TRUE
          /\ rowsReleased' = rowsReleased + 1
          /\ LoopEnd
          /\ UNCHANGED pos
       \/ /\ ~rowsClosed
          /\ lasterr' = "driver"
          /\ rowsClosed' = TRUE
          /\ rowsReleased' = rowsReleased + 1
          /\ LoopEnd
          /\ UNCHANGED pos
    /\ UNCHANGED <<inputs, sigVars, ctxCancelled, connVars, rowsAcquired,
                   queryArgs, eligible, resultSet, ders, idx, defers,
                   cleanupErrs, getErr, runErr, logOut, exitStatus>>

\* convertAssign: the aggregated variant scans ENTRY_TIMESTAMP into a
\* string, which a NULL cannot be converted to; a bytea always fits []byte.
ConvertError(i) ==
    IF variant = "aggregated" /\ RowOf(table, i).entry = Null
    THEN {"errConvert"} ELSE {}

\* The error of rows.Scan on the current row.
ScanError ==
    IF lasterr \notin {"none", "eof"} THEN {lasterr}
    ELSE IF rowsClosed THEN {"errRowsClosed"}
    ELSE ConvertError(resultSet[pos])

\* err = rows.Scan(...); ders = append(ders, der) / log.Println(one, ...)
getCertificates_Scan ==
    /\ pc = "scan"
    /\ IF ScanError = {}
       THEN /\ err' = {}
            /\ pc' = "next"
            /\ IF variant = "direct"
               THEN /\ ders' = ders \o <<resultSet[pos]>>
                    /\ UNCHANGED logOut
               ELSE /\ Log(<<"row", resultSet[pos]>>)
                    /\ UNCHANGED ders
            /\ UNCHANGED retSlot
       ELSE /\ SetReturn(Wrap("couldNotScan", ScanError), ScanError)
            /\ pc' = "defers"
            /\ UNCHANGED <<ders, logOut>>
    /\ UNCHANGED <<inputs, sigVars, ctxCancelled, connVars, rowVars, idx,
                   defers, cleanupErrs, getErr, runErr, exitStatus>>

\* The deferred closures, last pushed first.
\*   err = multierror.Append(err, rows.Close())
\*   err = multierror.Append(err, stmt.Close())
\*   if err2 := db.Close(); err2 != nil { err = multierror.Append(err, err2) }
\* Rows.Close on a closed cursor answers nil.
getCertificates_Defer ==
    /\ pc = "defers"
    /\ defers # <<>>
    /\ defers' = Tail(defers)
    /\ \/ /\ Head(defers) = "rowsClose"
          /\ \E e \in (IF rowsClosed THEN { {} } ELSE { {}, {"errRowsClose"} }) :
               /\ err' = MultiAppend(err, e)
               /\ cleanupErrs' = cleanupErrs \cup e
          /\ rowsClosed' = TRUE
          /\ rowsReleased' = (IF rowsClosed THEN rowsReleased ELSE rowsReleased + 1)
          /\ UNCHANGED <<connVars>>
       \/ /\ Head(defers) = "stmtClose"
          /\ \E e \in { {}, {"errStmtClose"} } :
               /\ err' = MultiAppend(err, e)
               /\ cleanupErrs' = cleanupErrs \cup e
          /\ stmtCloses' = stmtCloses + 1
          /\ UNCHANGED <<dbAcquired, dbCloses, stmtAcquired, rowsClosed, rowsReleased>>
       \/ /\ Head(defers) = "dbClose"
          /\ \E e \in { {}, {"errDbClose"} } :
               /\ err' = (IF e # {} THEN MultiAppend(err, e) ELSE err)
               /\ cleanupErrs' = cleanupErrs \cup e
          /\ dbCloses' = dbCloses + 1
          /\ UNCHANGED <<dbAcquired, stmtAcquired, stmtCloses, rowsClosed, rowsReleased>>
    /\ UNCHANGED <<inputs, pc, sigVars, ctxCancelled, rowsAcquired, lasterr,
                   queryArgs, eligible, resultSet, pos, ders, idx, retSlot,
                   getErr, runErr, logOut, exitStatus>>

\* getCertificates returns to run.
getCertificates_Return ==
    /\ pc = "defers"
    /\ defers = <<>>
    /\ getErr' = ReturnedError
    /\ pc' = "afterGet"
    /\ UNCHANGED <<inputs, sigVars, ctxCancelled, connVars, rowVars, ders, idx,
                   defers, err, retSlot, cleanupErrs, runErr, logOut, exitStatus>>

(***************************************************************************)
(* run(), after getCertificates, and main().                               *)
(***************************************************************************)

\* if err != nil { return fmt.Errorf("could not getCertificates ...") }
\* The aggregated variant then prints certs (always nil) and returns nil.
run_AfterGet ==
    /\ pc = "afterGet"
    /\ IF getErr # {}
       THEN /\ runErr' = Wrap("couldNotGetCertificates", getErr)
            /\ ctxCancelled' = TRUE
            /\ pc' = "fatal"
            /\ UNCHANGED <<idx, logOut>>
       ELSE IF variant = "direct"
       THEN /\ idx' = 1
            /\ pc' = "range"
            /\ UNCHANGED <<runErr, ctxCancelled, logOut>>
       ELSE /\ Log(<<"certs", 0>>)
            /\ ctxCancelled' = TRUE
            /\ pc' = "runRet"
            /\ UNCHANGED <<runErr, idx>>
    /\ UNCHANGED <<inputs, sigVars, connVars, rowVars, ders, defers, err,
                   retSlot, cleanupErrs, getErr, exitStatus>>

\* x509.ParseCertificate(der) accepts der.
Parses(der) == der \notin malformed

\* A loop body that never writes the PEM block.
AfterLine_NeverPem(flag) == "range"

\* Where the loop body goes after the log line: if *printPEM { pem.Encode }.
AfterLine(flag) == IF flag THEN "pem" ELSE "range"

\* for _, der := range ders { cert, err = x509.ParseCertificate(der); ...
\*     log.Printf("CommonName: (%v) Issued On: (%v)\n", ...)
run_Range ==
    /\ pc = "range"
    /\ IF idx > Len(ders)
       THEN /\ ctxCancelled' = TRUE
            /\ pc' = "runRet"
            /\ UNCHANGED <<runErr, logOut, idx>>
       ELSE IF ~Parses(ders[idx])
       THEN /\ runErr' = Wrap("couldNotParse", {"errParse"})
            /\ ctxCancelled' = TRUE
            /\ pc' = "fatal"
            /\ UNCHANGED <<logOut, idx>>
       ELSE /\ Log(<<"line", ders[idx]>>)
            /\ pc' = AfterLine(printPEM)
            /\ idx' = (IF pc' = "range" THEN idx + 1 ELSE idx)
            /\ UNCHANGED <<runErr, ctxCancelled>>
    /\ UNCHANGED <<inputs, sigVars, connVars, rowVars, ders, defers, err,
                   retSlot, cleanupErrs, getErr, exitStatus>>

\* err = pem.Encode(log.Default().Writer(), &pem.Block{Type: "CERTIFICATE",
\* Bytes: der}).  A failed write may leave part of the block behind.
run_Pem ==
    /\ pc = "pem"
    /\ \/ /\ Log(<<"pem", ders[idx]>>)
          /\ idx' = idx + 1
          /\ pc' = "range"
          /\ UNCHANGED <<runErr, ctxCancelled>>
       \/ /\ \E partial \in BOOLEAN :
               logOut' = (IF partial THEN logOut \o << <<"pemPartial", ders[idx]>> >>
                          ELSE logOut)
          /\ runErr' = Wrap("couldNotEncodePEM", {"errWrite"})
          /\ ctxCancelled' = TRUE
          /\ pc' = "fatal"
          /\ UNCHANGED idx
    /\ UNCHANGED <<inputs, sigVars, connVars, rowVars, ders, defers, err,
                   retSlot, cleanupErrs, getErr, exitStatus>>

\* if err := run(); err != nil { log.Fatal(err) }
main_Fatal ==
    /\ pc = "fatal"
    /\ Log(<<"fatal", 0>>)
    /\ Exit("1")
    /\ UNCHANGED <<inputs, sigVars, ctxCancelled, connVars, rowVars, ders, idx,
                   defers, errVars>>

\* run returned nil: main returns, the process exits 0.
main_Exit ==
    /\ pc = "runRet"
    /\ Exit("0")
    /\ UNCHANGED <<inputs, sigVars, ctxCancelled, connVars, rowVars, ders, idx,
                   defers, errVars, logOut>>

Next ==
    \/ Signal
    \/ runListener_Notify
    \/ runListener_Receive
    \/ runListener_Cancel
    \/ runListener_Log
    \/ AwaitDone
    \/ run_Start
    \/ run_FlagParse
    \/ run_CheckArgs
    \/ getCertificates_Open
    \/ getCertificates_Prepare
    \/ getCertificates_Query
    \/ getCertificates_Columns
    \/ getCertificates_Next
    \/ getCertificates_Scan
    \/ getCertificates_Defer
    \/ getCertificates_Return
    \/ run_AfterGet
    \/ run_Range
    \/ run_Pem
    \/ main_Fatal
    \/ main_Exit

Spec == Init /\ [][Next]_vars

(***************************************************************************)
(* Properties.                                                             *)
(***************************************************************************)

Exited == pc = "exited"

\* The process ended by its own os.Exit or return from main, not by a signal.
ExitedItself == Exited /\ exitStatus # "signal"

\* getCertificates has returned to run.
Returned == pc \in {"afterGet", "range", "pem", "runRet"}

Kinds(ks) == SelectSeq(logOut, LAMBDA e : e[1] \in ks)

\* The certificate ids of the entries of kinds ks, in the order written.
IdsOf(ks) == [i \in DOMAIN Kinds(ks) |-> Kinds(ks)[i][2]]

IsPrefix(s, t) == Len(s) <= Len(t) /\ s = SubSeq(t, 1, Len(s))

\* d occurs somewhere inside v.
Contains(v, d) ==
    \E i \in 1..(Len(v) - Len(d) + 1) : SubSeq(v, i, i + Len(d) - 1) = d

\* C1: a termination signal delivered after the listener is installed and
\* while getCertificates is still working never lets the process exit with
\* status 0.  Stated for the runs in which the signal arrived in that
\* window, cancelFunc ran in it, and the cancellation reached the cursor
\* (Rows.lasterr is the context's error) before all rows were fetched.
C1_SignalInWorkNeverExitsZero ==
    (Exited /\ sigInWork /\ cancelInWork /\ lasterr = "canceled"
            /\ pos < Len(resultSet))
        => exitStatus # "0"

\* C2: every error a Close call of getCertificates returned is part of the
\* error getCertificates returns to run.
C2_CleanupErrorsReturned ==
    pc = "afterGet" => cleanupErrs \subseteq getErr

\* C3: no resource is released before it is acquired or more than once, and
\* when getCertificates has returned every acquired resource (connection,
\* prepared statement, cursor) has been released exactly once.
C3_ReleasedExactlyOnce ==
    /\ dbCloses <= (IF dbAcquired THEN 1 ELSE 0)
    /\ stmtCloses <= (IF stmtAcquired THEN 1 ELSE 0)
    /\ rowsReleased <= (IF rowsAcquired THEN 1 ELSE 0)
    /\ Returned =>
         /\ dbCloses = (IF dbAcquired THEN 1 ELSE 0)
         /\ stmtCloses = (IF stmtAcquired THEN 1 ELSE 0)
         /\ rowsReleased = (IF rowsAcquired THEN 1 ELSE 0)

\* C3's case: a row failed to scan, and the cursor and the connection were
\* released once each.
C3_Witness ==
    /\ pc = "afterGet"
    /\ "couldNotScan" \in getErr
    /\ rowsAcquired /\ rowsReleased = 1
    /\ dbAcquired /\ dbCloses = 1

\* C4: a run that parsed its command line and exits 0 has scanned and
\* printed every row of the result set.
C4_ExitZeroMeansAllRows ==
    (Exited /\ exitStatus = "0" /\ flagOutcome = "ok")
        => IdsOf({"row", "line"}) = resultSet

\* The network was never used: getCertificates was not entered, no
\* connection was opened, no statement reached the server.
NoNetworkCall ==
    /\ pc \notin {"open", "prepare", "query", "columns", "next", "scan",
                  "defers", "afterGet", "range", "pem", "runRet"}
    /\ ~dbAcquired
    /\ ~stmtAcquired
    /\ ~rowsAcquired
    /\ queryArgs = <<>>
    /\ getErr = {}

\* C5 as stated: with 0 or at least 2 positional arguments the process
\* (unless a signal kills it) ends with run's usage error and a nonzero
\* status, and never uses the network.
C5_Original ==
    nArg # 1 =>
        /\ NoNetworkCall
        /\ ExitedItself =>
             /\ runErr = {"errExpectedArguments"}
             /\ exitStatus # "0"

\* C5 amended: the same for the command lines whose flags parse (no -h, no
\* unknown or malformed flag); the network is unused whatever the flags.
C5_UsageErrorNoNetwork ==
    nArg # 1 =>
        /\ NoNetworkCall
        /\ (ExitedItself /\ flagOutcome = "ok") =>
             /\ runErr = {"errExpectedArguments"}
             /\ exitStatus = "1"

\* C5's case: two positional arguments, the flags parsed, the process ended.
C5_Witness ==
    /\ Exited
    /\ nArg = 2
    /\ flagOutcome = "ok"
    /\ exitStatus = "1"
    /\ runErr = {"errExpectedArguments"}

\* C6: a process that ends because of a wrong number of positional
\* arguments has printed the usage message to the error stream.
C6_UsagePrinted ==
    (ExitedItself /\ flagOutcome = "ok" /\ nArg # 1)
        => Len(Kinds({"usage"})) >= 1

\* C7: when the query succeeds with zero rows, no signal arrives and
\* nothing fails, the process has written nothing and exits 0.
C7_ZeroRowsSilent ==
    (Exited /\ rowsAcquired /\ resultSet = <<>> /\ lasterr = "eof"
            /\ signalsSent = 0 /\ getErr = {} /\ cleanupErrs = {})
        => (logOut = <<>> /\ exitStatus = "0")

\* C8: for a limit of at least 1, getCertificates collects (direct) or
\* prints (aggregated) at most that many rows, and the server received the
\* limit unchanged as the second bound parameter.
C8_RowsWithinLimit ==
    limit >= 1 =>
        /\ Len(ders) <= limit
        /\ Len(Kinds({"row"})) <= limit
        /\ rowsAcquired => (Len(queryArgs) = 2 /\ queryArgs[2] = limit)

\* C8's case: more certificates match than the limit allows, and exactly
\* the limit came back.
C8_Witness ==
    /\ Returned
    /\ variant = "direct"
    /\ Cardinality(eligible) > limit
    /\ Len(ders) = limit

\* What the loop of run writes for ds[1..k]: a line for each certificate,
\* and its PEM block after it when p.
RECURSIVE CertOutput(_, _, _)
CertOutput(ds, k, p) ==
    IF k = 0 THEN <<>>
    ELSE CertOutput(ds, k - 1, p) \o << <<"line", ds[k]>> >>
            \o (IF p THEN << <<"pem", ds[k]>> >> ELSE <<>>)

\* C9 as stated: on the error stream every certificate's line is directly
\* followed by its PEM block when -pem is set (or by what a failed PEM write
\* leaves), and never by a PEM block when it is not set.
C9_Original ==
    variant = "direct" =>
        \A k \in 1..(Len(logOut) - 1) :
            /\ (logOut[k][1] = "line" /\ printPEM) =>
                    \/ logOut[k + 1] = <<"pem", logOut[k][2]>>
                    \/ logOut[k + 1] = <<"pemPartial", logOut[k][2]>>
                    \/ logOut[k + 1] = <<"fatal", 0>>
            /\ (logOut[k][1] = "line" /\ ~printPEM) =>
                    logOut[k + 1][1] # "pem"

\* C9 amended: among what the loop of run writes (the signal goroutine's
\* two lines may fall anywhere in between), the lines and PEM blocks are
\* those of the returned certificates in order, each line followed by its
\* PEM block exactly when -pem is set; no output belongs to a certificate
\* that does not parse; a run that exits 0 wrote them all; a run stopped
\* by certificate i wrote exactly those of the i-1 before it (and i's line,
\* when it was the PEM write that failed).
C9_CertificateOutputInOrder ==
    variant = "direct" =>
        /\ IsPrefix(Kinds({"line", "pem"}), CertOutput(ders, Len(ders), printPEM))
        /\ \A k \in DOMAIN Kinds({"line", "pem"}) :
                Kinds({"line", "pem"})[k][2] \notin malformed
        /\ (Exited /\ exitStatus = "0" /\ flagOutcome = "ok") =>
                Kinds({"line", "pem"}) = CertOutput(ders, Len(ders), printPEM)
        /\ "couldNotParse" \in runErr =>
                Kinds({"line", "pem"}) = CertOutput(ders, idx - 1, printPEM)
        /\ "couldNotEncodePEM" \in runErr =>
                Kinds({"line", "pem"}) =
                    CertOutput(ders, idx - 1, printPEM) \o << <<"line", ders[idx]>> >>

\* C9's case: -pem is set, the first certificate was printed with its PEM
\* block, and the second one, which does not parse, stopped the run.
C9_Witness ==
    /\ Exited
    /\ exitStatus = "1"
    /\ variant = "direct"
    /\ printPEM
    /\ Len(Kinds({"pem"})) >= 1
    /\ "couldNotParse" \in runErr
    /\ idx = 2

\* C10: the direct query selects a certificate exactly when the domain name
\* occurs inside its name value.  Stated for domain names without LIKE
\* wildcards.
C10_SubstringMatch ==
    (variant = "direct" /\ rowsAcquired
            /\ \A i \in DOMAIN domainName : domainName[i] \notin {"%", "_"})
        => \A r \in table : (r.id \in eligible) <=> Contains(r.name, domainName)

====
